---- MODULE Spec2Model ----
(***************************************************************************)
(* Model of cassandra_stress.py: main() validates the arguments, the       *)
(* CommandRunner fans one thread out per worker, every thread copies the   *)
(* standard output of one external process into results/output_<i>.txt,    *)
(* run_stress_tests joins the threads and lists the directory, and the     *)
(* SummaryAggregator folds LogCalculator.process_line over every line of   *)
(* every listed file.                                                      *)
(*                                                                         *)
(* Text is a sequence of atoms.  An atom is one character (":", " ", ",",  *)
(* ".", a digit, a letter) or one of the words the program looks for       *)
(* ("Latency max", "WRITE", "output_", ...), which the program only ever   *)
(* tests as a whole.  A float is the exact fraction [num, den] it stands   *)
(* for, in lowest terms; its mantissa has MantissaBits bits, and every     *)
(* conversion and addition rounds to the nearest such value, ties to even. *)
(***************************************************************************)
EXTENDS Integers, Sequences, FiniteSets, TLC

\* ------------------------------------------------------------------ bounds

\* Largest value of --threads.
MaxThreads == 2
\* Largest number of comma-separated durations.
MaxDurations == MaxThreads
\* Lines one external process writes to its standard output at most.
MaxOut == 1
\* Longest line given to process_line in SpecPL.
MaxLineLen == 4
\* Bits in the mantissa of a float (53 in the interpreter, scaled down).
MantissaBits == 4
MaxCalls == 3       \* process_line calls on one accumulator
MaxListed == 2      \* length of a list handed to aggregate on its own
MaxTraversals == 2  \* complete traversals of one LogReader
PipeLines == 1      \* lines the pipe of a standard-error stream holds
MaxErrLines == PipeLines + 1
RoundsA == 2        \* range(2) in a_test
RoundsB == 2        \* range(2) in b_test

\* ------------------------------------------------------------------ text

LatencyMax == "Latency max"
LatencyP99 == "Latency 99th percentile"
LatencyMean == "Latency mean"
OpRate == "Op rate"
Write == "WRITE"

Labels == {LatencyMax, LatencyP99, LatencyMean, OpRate}

Whitespace == {" "}
DigitSeq == <<"0", "1", "2", "3", "4", "5", "6", "7", "8", "9">>
Digits == {DigitSeq[k] : k \in 1..10}

\* The atoms lines are made of in SpecPL.
Alphabet == Labels \cup {Write, ":", " ", ",", ".", "1", "2", "x"}

Range(s) == {s[k] : k \in 1..Len(s)}

\* x in s, for a one-atom needle.
Contains(s, x) == x \in Range(s)

\* str.strip(): leading and trailing whitespace removed.
RECURSIVE LStrip(_)
LStrip(s) ==
  IF s # <<>> /\ Head(s) \in Whitespace THEN LStrip(Tail(s)) ELSE s

RECURSIVE RStrip(_)
RStrip(s) ==
  IF s # <<>> /\ s[Len(s)] \in Whitespace
    THEN RStrip(SubSeq(s, 1, Len(s) - 1))
    ELSE s

Strip(s) == RStrip(LStrip(s))

\* Position of the first occurrence of x in s, 0 when there is none.
RECURSIVE Find(_, _, _)
Find(s, x, k) ==
  IF k > Len(s) THEN 0
  ELSE IF s[k] = x THEN k
  ELSE Find(s, x, k + 1)

\* line.split(':', 1): one part when there is no colon, else the text left
\* of the first colon and all the text right of it.
SplitColon(line) ==
  LET k == Find(line, ":", 1) IN
    IF k = 0 THEN <<line>>
    ELSE <<SubSeq(line, 1, k - 1), SubSeq(line, k + 1, Len(line))>>

\* str.split(): the maximal runs of non-whitespace atoms, in order.
RECURSIVE SplitWs(_, _, _)
SplitWs(s, cur, acc) ==
  IF s = <<>>
    THEN IF cur = <<>> THEN acc ELSE Append(acc, cur)
  ELSE IF Head(s) \in Whitespace
    THEN SplitWs(Tail(s), <<>>, IF cur = <<>> THEN acc ELSE Append(acc, cur))
  ELSE SplitWs(Tail(s), Append(cur, Head(s)), acc)

Split(s) == SplitWs(s, <<>>, <<>>)

\* token.replace(',', '')
RemoveCommas(tok) == SelectSeq(tok, LAMBDA c : c # ",")

DigitValue(c) == Find(DigitSeq, c, 1) - 1

\* Value of a run of digits read as a decimal integer.
RECURSIVE DecimalValue(_, _)
DecimalValue(ds, acc) ==
  IF ds = <<>> THEN acc
  ELSE DecimalValue(Tail(ds), 10 * acc + DigitValue(Head(ds)))

AllDigits(s) == \A k \in 1..Len(s) : s[k] \in Digits

RECURSIVE Pow10(_)
Pow10(n) == IF n = 0 THEN 1 ELSE 10 * Pow10(n - 1)

RECURSIVE Gcd(_, _)
Gcd(a, b) == IF b = 0 THEN a ELSE Gcd(b, a % b)

Abs(a) == IF a < 0 THEN 0 - a ELSE a

\* The exact quotient num / den (den > 0) in lowest terms.
Frac(num, den) ==
  LET g == Gcd(Abs(num), den) IN [num |-> num \div g, den |-> den \div g]

Zero == Frac(0, 1)

FracAdd(a, b) == Frac(a.num * b.den + b.num * a.den, a.den * b.den)
FracSub(a, b) == Frac(a.num * b.den - b.num * a.den, a.den * b.den)
FracMul(a, b) == Frac(a.num * b.num, a.den * b.den)
\* a / n for an integer n > 0.
FracDivInt(a, n) == Frac(a.num, a.den * n)

RECURSIVE Pow2(_)
Pow2(n) == IF n = 0 THEN 1 ELSE 2 * Pow2(n - 1)

\* p / q (both > 0) brought into [2^(MantissaBits-1), 2^MantissaBits) by a
\* power of two: <<p1, q1, e>> with p / q = (p1 / q1) * 2^e.
RECURSIVE Normalize(_, _, _)
Normalize(p, q, e) ==
  IF p >= q * Pow2(MantissaBits) THEN Normalize(p, 2 * q, e + 1)
  ELSE IF p < q * Pow2(MantissaBits - 1) THEN Normalize(2 * p, q, e - 1)
  ELSE <<p, q, e>>

\* The float nearest to the exact value x, ties to the even mantissa.
RoundFloat(x) ==
  IF x.num = 0 THEN Zero
  ELSE
    LET n == Normalize(Abs(x.num), x.den, 0)
        floor == n[1] \div n[2]
        twice == 2 * (n[1] % n[2])
        m == IF twice > n[2] \/ (twice = n[2] /\ floor % 2 = 1) THEN floor + 1 ELSE floor
        sm == IF x.num < 0 THEN 0 - m ELSE m
    IN IF n[3] >= 0 THEN Frac(sm * Pow2(n[3]), 1) ELSE Frac(sm, Pow2(0 - n[3]))

\* float(tok) on the atoms of the model: an optional sign, digits with at
\* most one decimal point and at least one digit.  ok = FALSE is ValueError.
\* (Exponents, "inf", "nan" and "_" are outside the alphabet.)
ToFloat(tok) ==
  LET signed == tok # <<>> /\ Head(tok) \in {"+", "-"}
      body == IF signed THEN Tail(tok) ELSE tok
      dot == Find(body, ".", 1)
      ip == IF dot = 0 THEN body ELSE SubSeq(body, 1, dot - 1)
      fp == IF dot = 0 THEN <<>> ELSE SubSeq(body, dot + 1, Len(body))
      wellFormed == AllDigits(ip) /\ AllDigits(fp) /\ Len(ip) + Len(fp) > 0
      magnitude == DecimalValue(ip, 0) * Pow10(Len(fp)) + DecimalValue(fp, 0)
  IN IF ~wellFormed THEN [ok |-> FALSE, val |-> Zero]
     ELSE [ok |-> TRUE,
           val |-> RoundFloat(
                     Frac(IF signed /\ Head(tok) = "-" THEN 0 - magnitude ELSE magnitude,
                          Pow10(Len(fp))))]

\* ------------------------------------------------------------------ LogCalculator

\* LogCalculator.__init__
NewCalculator ==
  [op_rate_sum |-> Zero,
   latency_mean_values |-> <<>>,
   latency_99th_percentile_values |-> <<>>,
   latency_max_values |-> <<>>]

\* self.op_rate_sum += value
FloatAdd(a, b) == RoundFloat(FracAdd(a, b))

\* The outcome of one process_line call: the accumulator afterwards and the
\* exception that left the call ("none" when it returned).
Returned(calc) == [calc |-> calc, exc |-> "none"]

\* except ValueError: return
OnValueErrorRaise(calc) == [calc |-> calc, exc |-> "ValueError"]

OnValueError(calc) == Returned(calc)

\* The chain with the "WRITE" test of its last branch dropped.
DispatchAnyOpRate(calc, key, line, value) ==
  IF Contains(key, LatencyMax)
    THEN [calc EXCEPT !.latency_max_values = Append(@, value)]
  ELSE IF Contains(key, LatencyP99)
    THEN [calc EXCEPT !.latency_99th_percentile_values = Append(@, value)]
  ELSE IF Contains(key, LatencyMean)
    THEN [calc EXCEPT !.latency_mean_values = Append(@, value)]
  ELSE IF Contains(key, OpRate)
    THEN [calc EXCEPT !.op_rate_sum = FloatAdd(@, value)]
  ELSE calc

\* Independent ifs in place of the if/elif chain.
DispatchIndependent(calc, key, line, value) ==
  [op_rate_sum |->
     IF Contains(key, OpRate) /\ Contains(line, Write)
       THEN FloatAdd(calc.op_rate_sum, value) ELSE calc.op_rate_sum,
   latency_mean_values |->
     IF Contains(key, LatencyMean)
       THEN Append(calc.latency_mean_values, value) ELSE calc.latency_mean_values,
   latency_99th_percentile_values |->
     IF Contains(key, LatencyP99)
       THEN Append(calc.latency_99th_percentile_values, value)
       ELSE calc.latency_99th_percentile_values,
   latency_max_values |->
     IF Contains(key, LatencyMax)
       THEN Append(calc.latency_max_values, value) ELSE calc.latency_max_values]

\* The if/elif chain on the key.
Dispatch(calc, key, line, value) ==
  IF Contains(key, LatencyMax)
    THEN [calc EXCEPT !.latency_max_values = Append(@, value)]
  ELSE IF Contains(key, LatencyP99)
    THEN [calc EXCEPT !.latency_99th_percentile_values = Append(@, value)]
  ELSE IF Contains(key, LatencyMean)
    THEN [calc EXCEPT !.latency_mean_values = Append(@, value)]
  ELSE IF Contains(key, OpRate) /\ Contains(line, Write)
    THEN [calc EXCEPT !.op_rate_sum = FloatAdd(@, value)]
  ELSE calc

ProcessLine(calc, line) ==
  LET parts == SplitColon(line) IN
    IF Len(parts) < 2 THEN Returned(calc)
    ELSE
      LET key == Strip(parts[1])
          value_tokens == Split(Strip(parts[2]))
      IN IF value_tokens = <<>> THEN Returned(calc)
         ELSE
           LET f == ToFloat(RemoveCommas(value_tokens[1])) IN
             IF ~f.ok THEN OnValueError(calc)
             ELSE Returned(Dispatch(calc, key, line, f.val))

\* ------------------------------------------------------------------ paths

\* str(n) for n >= 0: the decimal digits, most significant first.
RECURSIVE Str(_)
Str(n) ==
  IF n < 10 THEN <<DigitSeq[n + 1]>>
  ELSE Append(Str(n \div 10), DigitSeq[(n % 10) + 1])

\* output_dir='results'
OutputDir == "results"

\* os.path.join(output_dir, name)
PathJoin(dir, name) == <<dir, "/">> \o name

\* f'output_{thread_number}.txt'
OutputNameShared(thread_number) == <<"output_", ".txt">>

OutputName(thread_number) == <<"output_">> \o Str(thread_number) \o <<".txt">>

OutputFile(thread_number) == PathJoin(OutputDir, OutputName(thread_number))

\* f.startswith('output_')
StartsWithOutput(f) == f # <<>> /\ Head(f) = "output_"

\* os.listdir(dir): the names of the entries of dir, as a set (the order in
\* which the system yields them is chosen where the listing is used).
ListDirNames(files, dir) ==
  {SubSeq(p, 3, Len(p)) : p \in {q \in DOMAIN files : Len(q) > 2 /\ q[1] = dir /\ q[2] = "/"}}

\* All orderings of a finite set, as sequences without repetition.
Orderings(S) ==
  {s \in [1..Cardinality(S) -> S] : \A a, b \in 1..Cardinality(S) : a # b => s[a] # s[b]}

\* ------------------------------------------------------------------ external processes

\* Lines of cassandra-stress output, with the line terminator left out.
MeanLine == <<LatencyMean, " ", ":", " ", "2", ".", "5", " ", "x">>
OpRateLine == <<OpRate, " ", ":", " ", "1", ",", "2", " ", "x", " ", Write, ":", " ", "x">>

OutputLines == {MeanLine, OpRateLine}

ExitCodes == {0, 1}

\* ------------------------------------------------------------------ summary

RECURSIVE Sum(_)
Sum(vals) == IF vals = <<>> THEN Zero ELSE FracAdd(Head(vals), Sum(Tail(vals)))

RECURSIVE SumSq(_)
SumSq(vals) ==
  IF vals = <<>> THEN Zero
  ELSE FracAdd(FracMul(Head(vals), Head(vals)), SumSq(Tail(vals)))

\* What statistics.mean and statistics.stdev raise on too few data points,
\* held in place of the float they would have returned.
StatisticsError == [num |-> 0, den |-> 0]

\* statistics.mean(vals): StatisticsError on no data, else computed exactly,
\* then rounded once.
Mean(vals) ==
  IF vals = <<>> THEN StatisticsError
  ELSE RoundFloat(FracDivInt(Sum(vals), Len(vals)))

\* statistics.stdev(vals): StatisticsError on fewer than two data points,
\* else held as the exact sample variance: the float returned is the
\* correctly rounded square root of it.
Variance(vals) ==
  IF Len(vals) < 2 THEN StatisticsError
  ELSE FracDivInt(FracSub(SumSq(vals),
                          FracDivInt(FracMul(Sum(vals), Sum(vals)), Len(vals))),
                  Len(vals) - 1)

\* calculate_aggregations with the stdev guard of the averages.
CalculateAggregationsSameGuard(calc) ==
  [latency_mean_avg |->
     IF calc.latency_mean_values # <<>>
       THEN Mean(calc.latency_mean_values) ELSE Zero,
   latency_99th_percentile_avg |->
     IF calc.latency_99th_percentile_values # <<>>
       THEN Mean(calc.latency_99th_percentile_values) ELSE Zero,
   latency_max_stddev |->
     IF calc.latency_max_values # <<>>
       THEN Variance(calc.latency_max_values) ELSE Zero,
   op_rate_sum |-> calc.op_rate_sum]

\* LogCalculator.calculate_aggregations; latency_max_stddev holds the square
\* of the standard deviation.
CalculateAggregations(calc) ==
  [latency_mean_avg |->
     IF calc.latency_mean_values # <<>>
       THEN Mean(calc.latency_mean_values) ELSE Zero,
   latency_99th_percentile_avg |->
     IF calc.latency_99th_percentile_values # <<>>
       THEN Mean(calc.latency_99th_percentile_values) ELSE Zero,
   latency_max_stddev |->
     IF Len(calc.latency_max_values) > 1
       THEN Variance(calc.latency_max_values) ELSE Zero,
   op_rate_sum |-> calc.op_rate_sum]

\* LogReader.get_values over the whole file: every line, stripped.
GetValues(content) == [k \in 1..Len(content) |-> Strip(content[k])]

\* The inner loop of aggregate over the lines of one file: process_line on
\* each in turn; an exception ends the loop.
RECURSIVE FoldLines(_, _)
FoldLines(st, lines) ==
  IF lines = <<>> \/ st.exc # "none" THEN st
  ELSE FoldLines(ProcessLine(st.calc, Head(lines)), Tail(lines))

\* ------------------------------------------------------------------ state

VARIABLES
  threads_arg,  \* args.threads
  durations,    \* the parsed --duration list
  mpc,          \* where the main thread is
  out,          \* what main() has printed: "none", "mismatch" or "summary"
  spawn_i,      \* run_stress_tests: threads started so far (the list threads)
  join_i,       \* run_stress_tests: threads joined so far
  tpc,          \* where each worker thread is in _run_command
  proc,         \* each worker's external process: none, running, exited, reaped
  rc,           \* exit code of each worker's process, -1 while it has none
  pipe,         \* lines in each process's standard-output pipe, not yet read
  emitted,      \* every line each process has written to standard output
  fs,           \* the file system: path -> lines of the file
  fh,           \* the file each worker has open for writing, NoFile if none
  writes,       \* <<worker, path>> for every open-for-write and write of this run
  stderr,       \* uncaught thread exceptions reported by threading.excepthook
  log_files,    \* the list run_stress_tests returned
  agg_k,        \* aggregate: index in log_files of the next file to read
  calc,         \* aggregate: the LogCalculator
  summary,      \* the AggregatedSummary, NoSummary before it exists
  pl_pc,        \* process_line on its own: "off", "ready", "returned"
  pl_calc0,     \* the accumulator before the call
  pl_line,      \* the line of the call
  pl_res,       \* the outcome of the call
  sq_pc,        \* one accumulator on its own: "off", "feeding", "calculated"
  sq_calc,      \* that accumulator
  sq_hist,      \* the lines passed to its process_line so far, in call order
  sq_summary,   \* what its calculate_aggregations returned
  rd_pc,        \* a LogReader on output_0.txt: "off", "idle", "reading", "raised"
  rd_pos,       \* lines its open file has handed out
  rd_cur,       \* the traversal under way: what it has yielded so far
  rd_done,      \* the complete traversals, in order
  errq,         \* lines in each process's standard-error pipe, never read
  errleft,      \* lines each process has yet to write to standard error
  call_log,     \* scylla.py: Reproducer.call_log
  tk_pc,        \* scylla.py: each task: "off", "created", "sleeping", "done"
  tk_k          \* scylla.py: helper calls each task has made

mainVars == <<threads_arg, durations, mpc, out, spawn_i, join_i, log_files,
              agg_k, calc, summary>>
workerVars == <<tpc, proc, rc, pipe, emitted, fh, writes, stderr>>
plVars == <<pl_pc, pl_calc0, pl_line, pl_res>>
seqVars == <<sq_pc, sq_calc, sq_hist, sq_summary>>
rdVars == <<rd_pc, rd_pos, rd_cur, rd_done>>
errVars == <<errq, errleft>>
logVars == <<call_log, tk_pc, tk_k>>
auxVars == <<plVars, seqVars, rdVars, errVars, logVars>>
vars == <<mainVars, workerVars, fs, auxVars>>

Workers == 0..(MaxThreads - 1)
NoFile == <<>>
EmptyFs == [p \in {} |-> <<>>]
NoSummary == [none |-> TRUE]
DurationValues == {1}

\* Every list of n durations, n in 1..MaxDurations ("".split(",") has one part).
DurationLists == UNION {[1..n -> DurationValues] : n \in 1..MaxDurations}

Terminated(i) == tpc[i] \in {"done", "raised"}

\* The state of everything but the directory when a program run starts.
Fresh ==
  /\ mpc = "check"
  /\ out = "none"
  /\ spawn_i = 0
  /\ join_i = 0
  /\ tpc = [i \in Workers |-> "unstarted"]
  /\ proc = [i \in Workers |-> "none"]
  /\ rc = [i \in Workers |-> -1]
  /\ pipe = [i \in Workers |-> <<>>]
  /\ emitted = [i \in Workers |-> <<>>]
  /\ fh = [i \in Workers |-> NoFile]
  /\ writes = {}
  /\ stderr = {}
  /\ log_files = <<>>
  /\ agg_k = 1
  /\ calc = NewCalculator
  /\ summary = NoSummary

PlOff ==
  /\ pl_pc = "off"
  /\ pl_calc0 = NewCalculator
  /\ pl_line = <<>>
  /\ pl_res = Returned(NewCalculator)

SeqOff ==
  /\ sq_pc = "off"
  /\ sq_calc = NewCalculator
  /\ sq_hist = <<>>
  /\ sq_summary = NoSummary

NoTraversal == [quiet |-> FALSE, before |-> <<>>, lines |-> <<>>]

RdOff ==
  /\ rd_pc = "off"
  /\ rd_pos = 0
  /\ rd_cur = NoTraversal
  /\ rd_done = <<>>

ErrOff ==
  /\ errq = [i \in Workers |-> 0]
  /\ errleft = [i \in Workers |-> 0]

Tasks == {"a_test", "b_test"}

LogOff ==
  /\ call_log = <<>>
  /\ tk_pc = [t \in Tasks |-> "off"]
  /\ tk_k = [t \in Tasks |-> 0]

\* The first run: the arguments as argparse hands them over, no results
\* directory yet.
Init ==
  /\ threads_arg \in 0..MaxThreads
  /\ durations \in DurationLists
  /\ fs = EmptyFs
  /\ Fresh
  /\ PlOff
  /\ SeqOff
  /\ RdOff
  /\ ErrOff
  /\ LogOff

\* ------------------------------------------------------------------ main thread

\* main, lines 128-133: the length check, then the CommandRunner (whose
\* makedirs leaves the files of the directory as they are).
MainCheckLenient ==
  /\ mpc = "check"
  /\ IF Len(durations) < threads_arg
       THEN /\ out' = "mismatch"
            /\ mpc' = "mismatch"
       ELSE /\ out' = out
            /\ mpc' = "spawn"
  /\ UNCHANGED <<threads_arg, durations, spawn_i, join_i, log_files, agg_k,
                 calc, summary, workerVars, fs, auxVars>>

MainCheck ==
  /\ mpc = "check"
  /\ IF Len(durations) # threads_arg
       THEN /\ out' = "mismatch"
            /\ mpc' = "mismatch"
       ELSE /\ out' = out
            /\ mpc' = "spawn"
  /\ UNCHANGED <<threads_arg, durations, spawn_i, join_i, log_files, agg_k,
                 calc, summary, workerVars, fs, auxVars>>

\* run_stress_tests, lines 40-43: one pass of the first loop.
StartThread ==
  /\ mpc = "spawn"
  /\ spawn_i < threads_arg
  /\ tpc' = [tpc EXCEPT ![spawn_i] = "start"]
  /\ spawn_i' = spawn_i + 1
  /\ mpc' = IF spawn_i + 1 < threads_arg THEN "spawn" ELSE "join"
  /\ UNCHANGED <<threads_arg, durations, out, join_i, log_files, agg_k, calc,
                 summary, proc, rc, pipe, emitted, fh, writes, stderr, fs,
                 auxVars>>

\* A join that gives up on a thread that is still running.
JoinThreadNoWait ==
  /\ mpc = "join"
  /\ join_i < spawn_i
  /\ join_i' = join_i + 1
  /\ mpc' = IF join_i + 1 < spawn_i THEN "join" ELSE "listdir"
  /\ UNCHANGED <<threads_arg, durations, out, spawn_i, log_files, agg_k, calc,
                 summary, workerVars, fs, auxVars>>

\* run_stress_tests, lines 44-45: one pass of the second loop; t.join()
\* returns once the thread has ended, by return or by exception.
JoinThread ==
  /\ mpc = "join"
  /\ join_i < spawn_i
  /\ Terminated(join_i)
  /\ join_i' = join_i + 1
  /\ mpc' = IF join_i + 1 < spawn_i THEN "join" ELSE "listdir"
  /\ UNCHANGED <<threads_arg, durations, out, spawn_i, log_files, agg_k, calc,
                 summary, workerVars, fs, auxVars>>

\* run_stress_tests, line 46: the listing, in the order the system yields it.
ListDir ==
  /\ mpc = "listdir"
  /\ \E order \in Orderings({f \in ListDirNames(fs, OutputDir) : StartsWithOutput(f)}) :
       log_files' = [k \in 1..Len(order) |-> PathJoin(OutputDir, order[k])]
  /\ mpc' = "aggregate"
  /\ UNCHANGED <<threads_arg, durations, out, spawn_i, join_i, agg_k, calc,
                 summary, workerVars, fs, auxVars>>

\* aggregate skipping a file that is not there.
AggregateFileSkipMissing ==
  /\ mpc = "aggregate"
  /\ agg_k <= Len(log_files)
  /\ IF log_files[agg_k] \notin DOMAIN fs
       THEN /\ agg_k' = agg_k + 1
            /\ UNCHANGED <<mpc, calc>>
       ELSE LET st == FoldLines(Returned(calc), GetValues(fs[log_files[agg_k]])) IN
              /\ calc' = st.calc
              /\ IF st.exc = "none"
                   THEN /\ agg_k' = agg_k + 1
                        /\ mpc' = mpc
                   ELSE /\ agg_k' = agg_k
                        /\ mpc' = "crashed"
  /\ UNCHANGED <<threads_arg, durations, out, spawn_i, join_i, log_files,
                 summary, workerVars, fs, auxVars>>

\* aggregate with a new LogCalculator for every file.
AggregateFileFreshCalc ==
  /\ mpc = "aggregate"
  /\ agg_k <= Len(log_files)
  /\ IF log_files[agg_k] \notin DOMAIN fs
       THEN /\ mpc' = "crashed"
            /\ UNCHANGED <<agg_k, calc>>
       ELSE LET st == FoldLines(Returned(NewCalculator),
                                GetValues(fs[log_files[agg_k]])) IN
              /\ calc' = st.calc
              /\ IF st.exc = "none"
                   THEN /\ agg_k' = agg_k + 1
                        /\ mpc' = mpc
                   ELSE /\ agg_k' = agg_k
                        /\ mpc' = "crashed"
  /\ UNCHANGED <<threads_arg, durations, out, spawn_i, join_i, log_files,
                 summary, workerVars, fs, auxVars>>

\* aggregate, lines 106-109: one pass of the outer loop, over one file.
AggregateFile ==
  /\ mpc = "aggregate"
  /\ agg_k <= Len(log_files)
  /\ IF log_files[agg_k] \notin DOMAIN fs
       THEN /\ mpc' = "crashed"
            /\ UNCHANGED <<agg_k, calc>>
       ELSE LET st == FoldLines(Returned(calc), GetValues(fs[log_files[agg_k]])) IN
              /\ calc' = st.calc
              /\ IF st.exc = "none"
                   THEN /\ agg_k' = agg_k + 1
                        /\ mpc' = mpc
                   ELSE /\ agg_k' = agg_k
                        /\ mpc' = "crashed"
  /\ UNCHANGED <<threads_arg, durations, out, spawn_i, join_i, log_files,
                 summary, workerVars, fs, auxVars>>

\* aggregate, line 110, and print_summary.
AggregateDone ==
  /\ mpc = "aggregate"
  /\ agg_k > Len(log_files)
  /\ summary' = CalculateAggregations(calc)
  /\ out' = "summary"
  /\ mpc' = "done"
  /\ UNCHANGED <<threads_arg, durations, spawn_i, join_i, log_files, agg_k,
                 calc, workerVars, fs, auxVars>>

\* KeyboardInterrupt in the main thread while it is in run_stress_tests: the
\* exception leaves run_stress_tests and main; nothing handles it.
Interrupt ==
  /\ mpc \in {"spawn", "join"}
  /\ mpc' = "aborted"
  /\ UNCHANGED <<threads_arg, durations, out, spawn_i, join_i, log_files,
                 agg_k, calc, summary, workerVars, fs, auxVars>>

\* ------------------------------------------------------------------ worker threads

\* open(path, 'a'): the content of a file that is there is kept.
OpenForAppend(files, path) ==
  [p \in DOMAIN files \cup {path} |-> IF p \in DOMAIN files THEN files[p] ELSE <<>>]

\* The file as open(path, 'w') leaves it: created or truncated.
OpenForWrite(files, path) ==
  [p \in DOMAIN files \cup {path} |-> IF p = path THEN <<>> ELSE files[p]]

\* An uncaught exception ends the thread; threading.excepthook reports it
\* under the thread's name ("Thread-<n>", n counting the threads created).
Uncaught(i, exc) == [thread |-> i + 1, exc |-> exc]

\* _run_command, lines 26-32: the duration of this thread (IndexError when
\* the list is too short), the path, the command, and the file opened.
RunCommandOpen(i) ==
  /\ tpc[i] = "start"
  /\ IF i + 1 > Len(durations)
       THEN /\ tpc' = [tpc EXCEPT ![i] = "raised"]
            /\ stderr' = stderr \cup {Uncaught(i, "IndexError")}
            /\ UNCHANGED <<fs, fh, writes>>
       ELSE /\ tpc' = [tpc EXCEPT ![i] = "popen"]
            /\ fs' = OpenForWrite(fs, OutputFile(i))
            /\ fh' = [fh EXCEPT ![i] = OutputFile(i)]
            /\ writes' = writes \cup {<<i, OutputFile(i)>>}
            /\ UNCHANGED stderr
  /\ UNCHANGED <<mainVars, proc, rc, pipe, emitted, auxVars>>

\* A launch failure that also ends the threads still running.
RunCommandPopenCancel(i) ==
  /\ tpc[i] = "popen"
  /\ \/ /\ proc' = [proc EXCEPT ![i] = "running"]
        /\ tpc' = [tpc EXCEPT ![i] = "loop"]
        /\ UNCHANGED <<fh, stderr>>
     \/ /\ tpc' = [j \in Workers |->
                     IF j = i THEN "raised"
                     ELSE IF tpc[j] \in {"start", "popen", "loop"} THEN "done"
                     ELSE tpc[j]]
        /\ fh' = [j \in Workers |-> NoFile]
        /\ stderr' = stderr \cup {Uncaught(i, "OSError")}
        /\ UNCHANGED proc
  /\ UNCHANGED <<mainVars, rc, pipe, emitted, writes, fs, auxVars>>

\* _run_command, line 33: Popen starts the shell that runs the command, or
\* raises OSError when the system cannot start it; the with block then
\* closes the file and the exception leaves the thread.
RunCommandPopen(i) ==
  /\ tpc[i] = "popen"
  /\ \/ /\ proc' = [proc EXCEPT ![i] = "running"]
        /\ tpc' = [tpc EXCEPT ![i] = "loop"]
        /\ UNCHANGED <<fh, stderr>>
     \/ /\ tpc' = [tpc EXCEPT ![i] = "raised"]
        /\ fh' = [fh EXCEPT ![i] = NoFile]
        /\ stderr' = stderr \cup {Uncaught(i, "OSError")}
        /\ UNCHANGED proc
  /\ UNCHANGED <<mainVars, rc, pipe, emitted, writes, fs, auxVars>>

\* _run_command, lines 34-35: one line read from the pipe and written.
RunCommandCopy(i) ==
  /\ tpc[i] = "loop"
  /\ pipe[i] # <<>>
  /\ fs' = [fs EXCEPT ![fh[i]] = Append(@, Head(pipe[i]))]
  /\ pipe' = [pipe EXCEPT ![i] = Tail(@)]
  /\ writes' = writes \cup {<<i, fh[i]>>}
  /\ UNCHANGED <<mainVars, tpc, proc, rc, emitted, fh, stderr, auxVars>>

\* A worker that removes its artifact when its process failed.
RunCommandWaitCleanup(i) ==
  /\ tpc[i] = "loop"
  /\ pipe[i] = <<>>
  /\ proc[i] = "exited"
  /\ proc' = [proc EXCEPT ![i] = "reaped"]
  /\ fh' = [fh EXCEPT ![i] = NoFile]
  /\ tpc' = [tpc EXCEPT ![i] = "done"]
  /\ fs' = IF rc[i] = 0 THEN fs
           ELSE [p \in DOMAIN fs \ {fh[i]} |-> fs[p]]
  /\ UNCHANGED <<mainVars, rc, pipe, emitted, writes, stderr, auxVars>>

\* _run_command, lines 34-36: end of file on the pipe, process.wait() (the
\* exit code is dropped), the file closed, the thread returns.
RunCommandWait(i) ==
  /\ tpc[i] = "loop"
  /\ pipe[i] = <<>>
  /\ proc[i] = "exited"
  /\ proc' = [proc EXCEPT ![i] = "reaped"]
  /\ fh' = [fh EXCEPT ![i] = NoFile]
  /\ tpc' = [tpc EXCEPT ![i] = "done"]
  /\ UNCHANGED <<mainVars, rc, pipe, emitted, writes, stderr, fs, auxVars>>

\* ------------------------------------------------------------------ external processes

\* The command writes one more line to its standard output.
ProcEmit(i) ==
  /\ proc[i] = "running"
  /\ Len(emitted[i]) < MaxOut
  /\ \E line \in OutputLines :
       /\ pipe' = [pipe EXCEPT ![i] = Append(@, line)]
       /\ emitted' = [emitted EXCEPT ![i] = Append(@, line)]
  /\ UNCHANGED <<mainVars, tpc, proc, rc, fh, writes, stderr, fs, auxVars>>

\* The command writes one more line to its standard error: into the pipe of
\* stderr=PIPE, which nothing reads, so only while the pipe has room.
ProcEmitErr(i) ==
  /\ proc[i] = "running"
  /\ errleft[i] > 0
  /\ errq[i] < PipeLines
  /\ errq' = [errq EXCEPT ![i] = @ + 1]
  /\ errleft' = [errleft EXCEPT ![i] = @ - 1]
  /\ UNCHANGED <<mainVars, workerVars, fs, plVars, seqVars, rdVars, logVars>>

\* The command exits, with any exit code, once it has written what it had
\* to write.
ProcExit(i) ==
  /\ proc[i] = "running"
  /\ errleft[i] = 0
  /\ \E code \in ExitCodes : rc' = [rc EXCEPT ![i] = code]
  /\ proc' = [proc EXCEPT ![i] = "exited"]
  /\ UNCHANGED <<mainVars, tpc, pipe, emitted, fh, writes, stderr, fs, auxVars>>

\* ------------------------------------------------------------------ program runs

\* The program has ended (the interpreter exits only after every thread it
\* started has ended) and is run again, with any arguments, on the directory
\* the earlier run left.
NewRun ==
  /\ mpc \in {"done", "mismatch", "aborted", "crashed"}
  /\ \A i \in Workers : tpc[i] \in {"unstarted", "done", "raised"}
  /\ threads_arg' \in 0..MaxThreads
  /\ durations' \in DurationLists
  /\ mpc' = "check"
  /\ out' = "none"
  /\ spawn_i' = 0
  /\ join_i' = 0
  /\ tpc' = [i \in Workers |-> "unstarted"]
  /\ proc' = [i \in Workers |-> "none"]
  /\ rc' = [i \in Workers |-> -1]
  /\ pipe' = [i \in Workers |-> <<>>]
  /\ emitted' = [i \in Workers |-> <<>>]
  /\ fh' = [i \in Workers |-> NoFile]
  /\ writes' = {}
  /\ stderr' = {}
  /\ log_files' = <<>>
  /\ agg_k' = 1
  /\ calc' = NewCalculator
  /\ summary' = NoSummary
  /\ UNCHANGED <<fs, auxVars>>

Next ==
  \/ MainCheck
  \/ StartThread
  \/ JoinThread
  \/ ListDir
  \/ AggregateFile
  \/ AggregateDone
  \/ Interrupt
  \/ \E i \in Workers : RunCommandOpen(i)
  \/ \E i \in Workers : RunCommandPopen(i)
  \/ \E i \in Workers : RunCommandCopy(i)
  \/ \E i \in Workers : RunCommandWait(i)
  \/ \E i \in Workers : ProcEmit(i)
  \/ \E i \in Workers : ProcExit(i)
  \/ NewRun

Spec == Init /\ [][Next]_vars

\* ------------------------------------------------------------------ process_line alone

\* Every line of at most MaxLineLen atoms.
Lines == UNION {[1..n -> Alphabet] : n \in 0..MaxLineLen}

\* Accumulators a caller can hold: a new one, and one that has seen lines.
StartCalcs ==
  {NewCalculator,
   FoldLines(Returned(NewCalculator), <<MeanLine, OpRateLine>>).calc}

InitPL ==
  /\ threads_arg = 1
  /\ durations = <<1>>
  /\ fs = EmptyFs
  /\ Fresh
  /\ pl_pc = "ready"
  /\ pl_calc0 \in StartCalcs
  /\ pl_line = <<>>
  /\ pl_res = Returned(pl_calc0)
  /\ SeqOff
  /\ RdOff
  /\ ErrOff
  /\ LogOff

\* calculator.process_line(line)
ProcessLineCall ==
  /\ pl_pc = "ready"
  /\ \E line \in Lines :
       /\ pl_line' = line
       /\ pl_res' = ProcessLine(pl_calc0, line)
  /\ pl_pc' = "returned"
  /\ UNCHANGED <<mainVars, workerVars, fs, pl_calc0, seqVars, rdVars, errVars, logVars>>

NextPL == ProcessLineCall

SpecPL == InitPL /\ [][NextPL]_vars

\* One LogCalculator fed a sequence of lines, then asked for its
\* aggregations.
SeqLines ==
  {OpRateLine,
   MeanLine,
   <<OpRate, ":", "1">>,
   <<OpRate, ":", "2", ".", "5", " ", Write>>,
   <<OpRate, Write, ":", "1">>,
   <<OpRate, ":", "x", " ", Write>>,
   <<LatencyMax, OpRate, ":", "2", " ", Write>>,
   <<Write, ":", "2", " ", OpRate>>,
   <<LatencyMax, ":", "1">>,
   <<LatencyP99, ":", "1", "2">>}

InitSeq ==
  /\ threads_arg = 1
  /\ durations = <<1>>
  /\ fs = EmptyFs
  /\ Fresh
  /\ PlOff
  /\ sq_pc = "feeding"
  /\ sq_calc = NewCalculator
  /\ sq_hist = <<>>
  /\ sq_summary = NoSummary
  /\ RdOff
  /\ ErrOff
  /\ LogOff

\* calculator.process_line(line) on the accumulator of the earlier calls
SeqProcessLine ==
  /\ sq_pc = "feeding"
  /\ Len(sq_hist) < MaxCalls
  /\ \E line \in SeqLines :
       LET st == ProcessLine(sq_calc, line) IN
         /\ sq_hist' = Append(sq_hist, line)
         /\ sq_calc' = st.calc
         /\ sq_pc' = IF st.exc = "none" THEN "feeding" ELSE "raised"
  /\ UNCHANGED <<mainVars, workerVars, fs, plVars, rdVars, errVars, logVars, sq_summary>>

\* calculator.calculate_aggregations()
SeqCalculate ==
  /\ sq_pc = "feeding"
  /\ sq_summary' = CalculateAggregations(sq_calc)
  /\ sq_pc' = "calculated"
  /\ UNCHANGED <<mainVars, workerVars, fs, plVars, rdVars, errVars, logVars, sq_calc, sq_hist>>

NextSeq == SeqProcessLine \/ SeqCalculate

SpecSeq == InitSeq /\ [][NextSeq]_vars

\* SummaryAggregator.aggregate(log_files) on its own: any list of paths, on
\* any directory.
FileContents ==
  {<<>>,
   <<<<" ", LatencyMax, " ", ":", " ", "1", " ">>, OpRateLine>>,
   <<OpRateLine, <<OpRate, ":", "2", ".", "5", " ", Write>>>>,
   <<<<OpRate, Write, ":", "1">>, <<LatencyMax, ":", "2">>>>,
   <<MeanLine, <<LatencyP99, ":", "1", "2", " ">>, <<"x">>>>,
   <<<<LatencyMax, ":", "2">>, <<LatencyMax, ":", "1">>>>}

AggPaths == {OutputFile(i) : i \in Workers}

Directories ==
  UNION {[present -> FileContents] : present \in SUBSET AggPaths}

PathLists == UNION {[1..n -> AggPaths] : n \in 0..MaxListed}

InitAgg ==
  /\ threads_arg = 1
  /\ durations = <<1>>
  /\ mpc = "aggregate"
  /\ out = "none"
  /\ spawn_i = 0
  /\ join_i = 0
  /\ tpc = [i \in Workers |-> "unstarted"]
  /\ proc = [i \in Workers |-> "none"]
  /\ rc = [i \in Workers |-> -1]
  /\ pipe = [i \in Workers |-> <<>>]
  /\ emitted = [i \in Workers |-> <<>>]
  /\ fh = [i \in Workers |-> NoFile]
  /\ writes = {}
  /\ stderr = {}
  /\ fs \in Directories
  /\ log_files \in PathLists
  /\ agg_k = 1
  /\ calc = NewCalculator
  /\ summary = NoSummary
  /\ PlOff
  /\ SeqOff
  /\ RdOff
  /\ ErrOff
  /\ LogOff

NextAgg == AggregateFile \/ AggregateDone

SpecAgg == InitAgg /\ [][NextAgg]_vars

\* One LogReader on the artifact of worker 0, traversed again and again,
\* next to a worker that has finished or one that is still writing.
ReadPath == OutputFile(0)

\* Worker 0 has run to its end and its process wrote content.
FinishedWorker(content) ==
  /\ tpc = [i \in Workers |-> IF i = 0 THEN "done" ELSE "unstarted"]
  /\ proc = [i \in Workers |-> IF i = 0 THEN "reaped" ELSE "none"]
  /\ rc = [i \in Workers |-> IF i = 0 THEN 0 ELSE -1]
  /\ emitted = [i \in Workers |-> IF i = 0 THEN content ELSE <<>>]
  /\ fh = [i \in Workers |-> NoFile]
  /\ fs = [p \in {ReadPath} |-> content]

\* Worker 0 has opened its file and started its process.
LiveWorker ==
  /\ tpc = [i \in Workers |-> IF i = 0 THEN "loop" ELSE "unstarted"]
  /\ proc = [i \in Workers |-> IF i = 0 THEN "running" ELSE "none"]
  /\ rc = [i \in Workers |-> -1]
  /\ emitted = [i \in Workers |-> <<>>]
  /\ fh = [i \in Workers |-> IF i = 0 THEN ReadPath ELSE NoFile]
  /\ fs = [p \in {ReadPath} |-> <<>>]

InitRead ==
  /\ threads_arg = 1
  /\ durations = <<1>>
  /\ mpc = "join"
  /\ out = "none"
  /\ spawn_i = 1
  /\ join_i = 0
  /\ pipe = [i \in Workers |-> <<>>]
  /\ writes = {<<0, ReadPath>>}
  /\ stderr = {}
  /\ log_files = <<>>
  /\ agg_k = 1
  /\ calc = NewCalculator
  /\ summary = NoSummary
  /\ \/ \E content \in FileContents : FinishedWorker(content)
     \/ LiveWorker
  /\ PlOff
  /\ SeqOff
  /\ rd_pc = "idle"
  /\ rd_pos = 0
  /\ rd_cur = NoTraversal
  /\ rd_done = <<>>
  /\ ErrOff
  /\ LogOff

\* get_values with the file position of the traversal before.
ReaderOpenKeepPosition ==
  /\ rd_pc = "idle"
  /\ Len(rd_done) < MaxTraversals
  /\ IF ReadPath \in DOMAIN fs
       THEN /\ rd_pc' = "reading"
            /\ rd_pos' = rd_pos
            /\ rd_cur' = [quiet |-> Terminated(0), before |-> fs[ReadPath],
                          lines |-> <<>>]
       ELSE /\ rd_pc' = "raised"
            /\ UNCHANGED <<rd_pos, rd_cur>>
  /\ UNCHANGED <<mainVars, workerVars, fs, plVars, seqVars, errVars, logVars, rd_done>>

\* get_values, line 54: the first next() on the generator opens the file
\* for reading, at its start; FileNotFoundError when it is not there.
ReaderOpen ==
  /\ rd_pc = "idle"
  /\ Len(rd_done) < MaxTraversals
  /\ IF ReadPath \in DOMAIN fs
       THEN /\ rd_pc' = "reading"
            /\ rd_pos' = 0
            /\ rd_cur' = [quiet |-> Terminated(0), before |-> fs[ReadPath],
                          lines |-> <<>>]
       ELSE /\ rd_pc' = "raised"
            /\ UNCHANGED <<rd_pos, rd_cur>>
  /\ UNCHANGED <<mainVars, workerVars, fs, plVars, seqVars, errVars, logVars, rd_done>>

\* get_values, lines 55-56: the next line of the file, stripped, is
\* yielded; at end of file the with block closes the file and the
\* generator is exhausted.
ReaderNext ==
  /\ rd_pc = "reading"
  /\ IF rd_pos < Len(fs[ReadPath])
       THEN /\ rd_cur' = [rd_cur EXCEPT !.lines = Append(@, Strip(fs[ReadPath][rd_pos + 1]))]
            /\ rd_pos' = rd_pos + 1
            /\ UNCHANGED <<rd_pc, rd_done>>
       ELSE /\ rd_done' = Append(rd_done, rd_cur)
            /\ rd_pc' = "idle"
            /\ UNCHANGED <<rd_pos, rd_cur>>
  /\ UNCHANGED <<mainVars, workerVars, fs, plVars, seqVars, errVars, logVars>>

NextRead ==
  \/ ReaderOpen
  \/ ReaderNext
  \/ \E i \in Workers : RunCommandCopy(i)
  \/ \E i \in Workers : RunCommandWait(i)
  \/ \E i \in Workers : ProcEmit(i)
  \/ \E i \in Workers : ProcExit(i)

SpecRead == InitRead /\ [][NextRead]_vars

\* One call of run_stress_tests whose commands also write to standard
\* error.
InitPipe ==
  /\ threads_arg \in 1..MaxThreads
  /\ durations = [k \in 1..threads_arg |-> 1]
  /\ fs = EmptyFs
  /\ Fresh
  /\ PlOff
  /\ SeqOff
  /\ RdOff
  /\ errq = [i \in Workers |-> 0]
  /\ errleft \in [Workers -> 0..MaxErrLines]
  /\ LogOff

NextPipe ==
  \/ MainCheck
  \/ StartThread
  \/ JoinThread
  \/ \E i \in Workers : RunCommandOpen(i)
  \/ \E i \in Workers : RunCommandPopen(i)
  \/ \E i \in Workers : RunCommandCopy(i)
  \/ \E i \in Workers : RunCommandWait(i)
  \/ \E i \in Workers : ProcEmit(i)
  \/ \E i \in Workers : ProcEmitErr(i)
  \/ \E i \in Workers : ProcExit(i)

SpecPipe == InitPipe /\ [][NextPipe]_vars

\* ------------------------------------------------------------------ scylla.py

\* repr of an int and of a str.
ReprInt(i) == Str(i)
ReprStr(x) == <<"'", x, "'">>

\* repr of the VeryImportantTestHelpers object a test has created: each
\* test has its own.
ReprHelpers(t) == <<"<VeryImportantTestHelpers of ", t, ">">>

\* ', '.join(parts)
RECURSIVE Join(_)
Join(parts) ==
  IF parts = <<>> THEN <<>>
  ELSE IF Len(parts) = 1 THEN Head(parts)
  ELSE Head(parts) \o <<", ">> \o Join(Tail(parts))

\* format_invoked_params(args, kwargs) with no keyword arguments, args
\* already as their reprs.
FormatInvokedParams(args) == Join(args)

\* The tracked calls of a_test and b_test, in program order: the function
\* and the reprs of the arguments after self.
ATestCalls ==
  [k \in 1..(3 * RoundsA) |->
     LET i == (k - 1) \div 3 IN
       CASE (k - 1) % 3 = 0 -> [func |-> "function_a", args |-> <<ReprInt(i), ReprStr("A")>>]
         [] (k - 1) % 3 = 1 -> [func |-> "function_b", args |-> <<ReprInt(i), ReprStr("a")>>]
         [] (k - 1) % 3 = 2 -> [func |-> "function_a", args |-> <<ReprStr("A"), ReprInt(i)>>]]

BTestCalls ==
  [k \in 1..(2 * RoundsB) |->
     LET i == (k - 1) \div 2 IN
       IF (k - 1) % 2 = 0
         THEN [func |-> "function_a", args |-> <<ReprInt(i), ReprStr("B")>>]
         ELSE [func |-> "function_b", args |-> <<ReprInt(i), ReprStr("b")>>]]

TaskCalls(t) == IF t = "a_test" THEN ATestCalls ELSE BTestCalls

\* A name every wrapper call reads from one shared place.
CurrentTaskNameShared(t) == "b_test"

\* asyncio.current_task().get_name() in the wrapper that task t runs.
CurrentTaskName(t) == t

\* Reproducer.do_log_call: the entry appended to call_log.
LogEntry(test_name, func_name, args) ==
  <<"Test: ", test_name, ", Func: ", func_name, "(">>
    \o FormatInvokedParams(args) \o <<")">>

InitLog ==
  /\ threads_arg = 1
  /\ durations = <<1>>
  /\ fs = EmptyFs
  /\ Fresh
  /\ PlOff
  /\ SeqOff
  /\ RdOff
  /\ ErrOff
  /\ call_log = <<>>
  /\ tk_pc = [t \in Tasks |-> "created"]
  /\ tk_k = [t \in Tasks |-> 0]

\* The event loop runs task t until it suspends: the helper it slept in, if
\* any, returns; then either the test makes its next call (the wrapper
\* logs it, the helper's body starts and suspends in asyncio.sleep) or the
\* test returns.
TaskResume(t) ==
  /\ tk_pc[t] \in {"created", "sleeping"}
  /\ IF tk_k[t] < Len(TaskCalls(t))
       THEN LET call == TaskCalls(t)[tk_k[t] + 1] IN
              /\ call_log' = Append(call_log,
                                    LogEntry(CurrentTaskName(t), call.func,
                                             <<ReprHelpers(t)>> \o call.args))
              /\ tk_k' = [tk_k EXCEPT ![t] = @ + 1]
              /\ tk_pc' = [tk_pc EXCEPT ![t] = "sleeping"]
       ELSE /\ tk_pc' = [tk_pc EXCEPT ![t] = "done"]
            /\ UNCHANGED <<call_log, tk_k>>
  /\ UNCHANGED <<mainVars, workerVars, fs, plVars, seqVars, rdVars, errVars>>

NextLog == \E t \in Tasks : TaskResume(t)

SpecLog == InitLog /\ [][NextLog]_vars

\* ------------------------------------------------------------------ properties

\* run_stress_tests has returned its list to main.
HasReturned == mpc \in {"aggregate", "done", "crashed"}

\* The threads run_stress_tests has started.
Started == {i \in Workers : i < spawn_i}

\* The worker index a path names: the decimal number between "output_" and
\* ".txt" in results/output_<n>.txt, -1 when there is none.
ArtifactIndex(path) ==
  LET digits == SubSeq(path, 4, Len(path) - 1) IN
    IF /\ Len(path) >= 5
       /\ path[1] = OutputDir /\ path[2] = "/" /\ path[3] = "output_"
       /\ path[Len(path)] = ".txt"
       /\ \A k \in 1..Len(digits) : digits[k] \in Digits
    THEN DecimalValue(digits, 0)
    ELSE -1

\* Position of path in the returned list, 0 when it is not in it.
PositionOf(path) ==
  IF \E k \in 1..Len(log_files) : log_files[k] = path
    THEN CHOOSE k \in 1..Len(log_files) : log_files[k] = path
    ELSE 0

\* How many of the lines are the line l.
CountOf(lines, l) == Cardinality({k \in 1..Len(lines) : lines[k] = l})

\* How often the line l occurs in the first k files of the returned list.
RECURSIVE CountInFirst(_, _)
CountInFirst(k, l) ==
  IF k = 0 THEN 0
  ELSE CountInFirst(k - 1, l) +
         (IF log_files[k] \in DOMAIN fs THEN CountOf(fs[log_files[k]], l) ELSE 0)

\* How often the line l occurs in the files of the returned list.
CountInListed(l) == CountInFirst(Len(log_files), l)

\* C1: aggregate() reads no artifact before every worker thread that
\* run_stress_tests started has ended.
C1_JoinBarrier ==
  (HasReturned \/ agg_k > 1) =>
    /\ spawn_i = threads_arg
    /\ \A i \in Started : Terminated(i)

C1_Witness ==
  /\ mpc = "done"
  /\ spawn_i = 2
  /\ agg_k > 2
  /\ \A i \in Started : emitted[i] # <<>>

\* C2: the list run_stress_tests(N) returns has exactly N entries.
C2_ReturnsOnePathPerWorker ==
  HasReturned => Len(log_files) = threads_arg

\* C3: in the returned list the artifact of worker i comes before the
\* artifact of worker j whenever i < j.
C3_SpecIndexOrder ==
  HasReturned =>
    \A i, j \in Started :
      (i < j /\ PositionOf(OutputFile(i)) > 0 /\ PositionOf(OutputFile(j)) > 0)
        => PositionOf(OutputFile(i)) < PositionOf(OutputFile(j))

\* Indices over which the naming is compared: one and two digit names.
NameRange == 0..(10 + MaxThreads)

\* C4: the artifact name is injective in the worker index, no two workers
\* have the same file open for writing at once, and whatever is opened or
\* written under the name of index i is opened or written by worker i.
C4_NoWriteCollisions ==
  /\ mpc = "check" =>
       \A i, j \in NameRange : OutputFile(i) = OutputFile(j) => i = j
  /\ \A i, j \in Workers :
       (i # j /\ fh[i] # NoFile /\ fh[j] # NoFile) => fh[i] # fh[j]
  /\ \A w \in writes : ArtifactIndex(w[2]) = w[1]

C4_Witness ==
  /\ fh[0] # NoFile
  /\ fh[1] # NoFile
  /\ Len(fs[fh[0]]) > 0
  /\ Len(fs[fh[1]]) > 0

\* A worker whose process wrote output and then exited with a non-zero code.
FailedWithOutput(i) ==
  i \in Started /\ tpc[i] = "done" /\ rc[i] > 0 /\ emitted[i] # <<>>

\* C5: a process that exits non-zero after writing lines does not abort the
\* run; its artifact is in the returned list with all the lines it wrote, and
\* the accumulator after aggregate() holds one sample per "Latency mean"
\* line and the sum of the "Op rate" values of all listed artifacts.
C5_BestEffortAggregate ==
  /\ mpc # "crashed"
  /\ (mpc = "done" /\ \E i \in Workers : FailedWithOutput(i)) =>
       /\ \A i \in Workers : FailedWithOutput(i) =>
            /\ PositionOf(OutputFile(i)) > 0
            /\ fs[OutputFile(i)] = emitted[i]
       /\ Len(calc.latency_mean_values) = CountInListed(MeanLine)
       /\ \A k \in 1..Len(calc.latency_mean_values) :
            calc.latency_mean_values[k] = Frac(5, 2)
       /\ calc.op_rate_sum = Frac(12 * CountInListed(OpRateLine), 1)
       /\ summary = CalculateAggregations(calc)

C5_Witness ==
  /\ mpc = "done"
  /\ \E i, j \in Started :
       /\ FailedWithOutput(i)
       /\ rc[j] = 0
       /\ emitted[i] = <<MeanLine>>
       /\ emitted[j] = <<OpRateLine>>

\* C6: the failure of one worker leaves the others alone: a worker ends
\* without an exception only when its own process has exited and all its
\* output is copied, an exception in a thread is that thread's own, and
\* run_stress_tests returns only when every thread has ended.
C6_SiblingsNotCancelled ==
  /\ \A i \in Workers :
       /\ tpc[i] = "done" =>
            /\ proc[i] = "reaped"
            /\ OutputFile(i) \in DOMAIN fs
            /\ fs[OutputFile(i)] = emitted[i]
       /\ tpc[i] = "raised" => \E r \in stderr : r.thread = i + 1
  /\ Cardinality(stderr) = Cardinality({i \in Workers : tpc[i] = "raised"})
  /\ HasReturned => \A i \in Started : Terminated(i)

C6_Witness ==
  /\ HasReturned
  /\ \E i, j \in Started :
       /\ tpc[i] = "raised"
       /\ tpc[j] = "done"
       /\ emitted[j] # <<>>

\* C7: a process that cannot be launched is reported as a LaunchError that
\* carries the index of its worker.
C7_LaunchErrorReported ==
  \A i \in Workers :
    (HasReturned /\ tpc[i] = "raised") =>
      \E r \in stderr : r.exc = "LaunchError" /\ r.thread = i + 1

\* C8: when the orchestrator is stopped by a top-level abort, none of the
\* external processes it started is still running as it returns.
C8_NoProcessOutlivesAbort ==
  [][(mpc # "aborted" /\ mpc' = "aborted") =>
       \A i \in Workers : proc'[i] # "running"]_vars

\* C9: when the number of durations differs from the worker count, main()
\* reports the mismatch and does nothing else: no thread, no process, no
\* file opened or written, no listing, no aggregation.
C9_ConfigFailFast ==
  (Len(durations) # threads_arg /\ mpc # "check") =>
    /\ mpc = "mismatch"
    /\ out = "mismatch"
    /\ spawn_i = 0
    /\ \A i \in Workers : tpc[i] = "unstarted" /\ proc[i] = "none" /\ fh[i] = NoFile
    /\ writes = {}
    /\ stderr = {}
    /\ log_files = <<>>
    /\ agg_k = 1
    /\ calc = NewCalculator
    /\ summary = NoSummary

C9_Witness ==
  /\ mpc = "mismatch"
  /\ Len(durations) > threads_arg
  /\ fs # EmptyFs

\* The shape of a line, read off the line itself.
HasColon(line) == \E k \in 1..Len(line) : line[k] = ":"

FirstColon(line) ==
  CHOOSE k \in 1..Len(line) : line[k] = ":" /\ \A j \in 1..(k - 1) : line[j] # ":"

\* Positions right of the first colon that hold something other than a blank.
ValuePositions(line) ==
  {k \in (FirstColon(line) + 1)..Len(line) : line[k] # " "}

\* The first blank-delimited token right of the first colon.
FirstValueToken(line) ==
  LET from == CHOOSE k \in ValuePositions(line) : \A j \in ValuePositions(line) : k <= j
      to == CHOOSE k \in from..Len(line) :
              /\ \A j \in from..k : line[j] # " "
              /\ (k = Len(line) \/ line[k + 1] = " ")
  IN SubSeq(line, from, to)

\* A decimal numeral once its commas are dropped: digits with at most one
\* point and at least one digit.
IsNumeral(tok) ==
  LET kept == {k \in 1..Len(tok) : tok[k] # ","} IN
    /\ \A k \in kept : tok[k] \in Digits \cup {"."}
    /\ Cardinality({k \in kept : tok[k] = "."}) <= 1
    /\ \E k \in kept : tok[k] \in Digits

Malformed(line) ==
  \/ ~HasColon(line)
  \/ ValuePositions(line) = {}
  \/ ~IsNumeral(FirstValueToken(line))

\* C10: process_line on a line without a colon, with nothing right of the
\* first colon, or whose first value token is no number once its commas are
\* removed, raises nothing and leaves the four components of the
\* accumulator as they were.
C10_MalformedLinesAreNoOps ==
  (pl_pc = "returned" /\ Malformed(pl_line)) =>
    /\ pl_res.exc = "none"
    /\ pl_res.calc.op_rate_sum = pl_calc0.op_rate_sum
    /\ pl_res.calc.latency_mean_values = pl_calc0.latency_mean_values
    /\ pl_res.calc.latency_99th_percentile_values = pl_calc0.latency_99th_percentile_values
    /\ pl_res.calc.latency_max_values = pl_calc0.latency_max_values

C10_Witness ==
  /\ pl_pc = "returned"
  /\ pl_calc0 # NewCalculator
  /\ pl_line = <<LatencyMax, ":", ",", "x">>
  /\ pl_res = Returned(pl_calc0)

\* The text left of the first colon of a line that has one.
LabelOf(line) == SubSeq(line, 1, FirstColon(line) - 1)

\* The value of a well-formed line: its first value token as a float.
ValueOf(line) == ToFloat(RemoveCommas(FirstValueToken(line))).val

\* The four rules in their order: 1 "Latency max", 2 "Latency 99th
\* percentile", 3 "Latency mean", 4 "Op rate" with "WRITE" in the line.
RuleMatches(r, line) ==
  CASE r = 1 -> LatencyMax \in Range(LabelOf(line))
    [] r = 2 -> LatencyP99 \in Range(LabelOf(line))
    [] r = 3 -> LatencyMean \in Range(LabelOf(line))
    [] r = 4 -> OpRate \in Range(LabelOf(line)) /\ Write \in Range(line)

\* The first rule that matches, 0 when none does.
FirstRule(line) ==
  IF \E r \in 1..4 : RuleMatches(r, line)
    THEN CHOOSE r \in 1..4 :
           RuleMatches(r, line) /\ \A q \in 1..(r - 1) : ~RuleMatches(q, line)
    ELSE 0

\* The state component rule r writes.
Component(c, r) ==
  CASE r = 1 -> c.latency_max_values
    [] r = 2 -> c.latency_99th_percentile_values
    [] r = 3 -> c.latency_mean_values
    [] r = 4 -> c.op_rate_sum

ChangedComponents(before, after) ==
  {r \in 1..4 : Component(before, r) # Component(after, r)}

\* C11: on a line with a parseable value process_line applies the first
\* matching rule of max, p99, mean, op rate and no other: only that rule's
\* component can change, a sample sequence gets the value appended, the op
\* rate sum gets it added, and nothing changes when no rule matches.
C11_FirstMatchDispatch ==
  (pl_pc = "returned" /\ ~Malformed(pl_line)) =>
    LET r == FirstRule(pl_line) IN
      /\ pl_res.exc = "none"
      /\ ChangedComponents(pl_calc0, pl_res.calc) \subseteq {r}
      /\ r \in 1..3 =>
           Component(pl_res.calc, r) = Append(Component(pl_calc0, r), ValueOf(pl_line))
      /\ r = 4 =>
           pl_res.calc.op_rate_sum = FloatAdd(pl_calc0.op_rate_sum, ValueOf(pl_line))

C11_Witness ==
  /\ pl_pc = "returned"
  /\ pl_line = <<LatencyMean, LatencyMax, ":", "2">>
  /\ pl_calc0 # NewCalculator
  /\ ChangedComponents(pl_calc0, pl_res.calc) = {1}
  /\ pl_res.calc.latency_max_values = <<Frac(2, 1)>>

\* Lines whose value the claimed op rate sum counts: a parseable value, "Op
\* rate" in the label, "WRITE" anywhere in the line, no latency label in the
\* label.
CountsForOpRate(line) ==
  /\ ~Malformed(line)
  /\ OpRate \in Range(LabelOf(line))
  /\ Write \in Range(line)
  /\ Range(LabelOf(line)) \cap {LatencyMax, LatencyP99, LatencyMean} = {}

\* The float sum, in call order, of the values of the lines that count.
RECURSIVE OpRateSumOf(_)
OpRateSumOf(hist) ==
  IF hist = <<>> THEN Zero
  ELSE LET before == OpRateSumOf(SubSeq(hist, 1, Len(hist) - 1))
           line == hist[Len(hist)]
       IN IF CountsForOpRate(line) THEN FloatAdd(before, ValueOf(line)) ELSE before

\* C12: after any sequence of process_line calls op_rate_sum is the sum of
\* the values of exactly the lines with "Op rate" in the label, "WRITE" in
\* the line and no latency rule matched; an "Op rate" line without "WRITE"
\* adds nothing.
C12_OpRateSum ==
  sq_pc \in {"feeding", "calculated"} => sq_calc.op_rate_sum = OpRateSumOf(sq_hist)

C12_Witness ==
  /\ sq_pc = "feeding"
  /\ sq_hist = <<OpRateLine, <<OpRate, ":", "1">>, <<LatencyMax, OpRate, ":", "2", " ", Write>>>>
  /\ sq_calc.op_rate_sum = Frac(12, 1)
  /\ sq_calc.latency_max_values = <<Frac(2, 1)>>

\* C13: calculate_aggregations raises nothing on sparse data: the mean
\* average is 0 without mean samples, the p99 average is 0 without p99
\* samples, the max-latency stddev is 0 with fewer than two max samples, and
\* op_rate_sum comes back as accumulated.
C13_SparseDataDefaults ==
  sq_pc = "calculated" =>
    /\ \A f \in DOMAIN sq_summary : sq_summary[f] # StatisticsError
    /\ sq_calc.latency_mean_values = <<>> => sq_summary.latency_mean_avg = Zero
    /\ sq_calc.latency_99th_percentile_values = <<>> =>
         sq_summary.latency_99th_percentile_avg = Zero
    /\ Len(sq_calc.latency_max_values) < 2 => sq_summary.latency_max_stddev = Zero
    /\ sq_summary.op_rate_sum = sq_calc.op_rate_sum

C13_Witness ==
  /\ sq_pc = "calculated"
  /\ Len(sq_calc.latency_max_values) = 1
  /\ sq_calc.latency_mean_values = <<>>
  /\ sq_calc.latency_99th_percentile_values # <<>>
  /\ sq_calc.op_rate_sum # Zero
  /\ sq_summary.latency_max_stddev = Zero
  /\ sq_summary.latency_mean_avg = Zero

SomeListedMissing == \E k \in 1..Len(log_files) : log_files[k] \notin DOMAIN fs

\* C14: when a listed artifact is missing, aggregate ends in the error of
\* the failed open and no AggregatedSummary ever exists, wherever the
\* missing artifact stands in the list.
C14_MissingArtifactFailsWhole ==
  SomeListedMissing =>
    /\ summary = NoSummary
    /\ out # "summary"
    /\ mpc \in {"aggregate", "crashed"}
    /\ mpc = "aggregate" => agg_k <= Len(log_files)

C14_Witness ==
  /\ mpc = "crashed"
  /\ Len(log_files) = 2
  /\ log_files[1] \in DOMAIN fs
  /\ log_files[2] \notin DOMAIN fs
  /\ fs[log_files[1]] # <<>>
  /\ calc # NewCalculator
  /\ summary = NoSummary

\* The raw lines of the first k listed artifacts, artifact after artifact.
RECURSIVE ListedLines(_)
ListedLines(k) ==
  IF k = 0 THEN <<>> ELSE ListedLines(k - 1) \o fs[log_files[k]]

\* The values of the lines that rule r takes, in the order of the lines.
RECURSIVE ValuesOfRule(_, _)
ValuesOfRule(r, lines) ==
  IF lines = <<>> THEN <<>>
  ELSE LET before == ValuesOfRule(r, SubSeq(lines, 1, Len(lines) - 1))
           line == lines[Len(lines)]
       IN IF ~Malformed(line) /\ FirstRule(line) = r
            THEN Append(before, ValueOf(line)) ELSE before

StrippedLines(lines) == [k \in 1..Len(lines) |-> Strip(lines[k])]

\* C15: aggregate drives one accumulator over every line of every listed
\* artifact once, in artifact order then line order: each sample sequence
\* is the subsequence of matching values in that order, and the summary is
\* calculate_aggregations of the left fold of process_line over the
\* concatenated lines.
C15_SingleAccumulatorFold ==
  mpc = "done" =>
    LET all == ListedLines(Len(log_files)) IN
      /\ \A r \in 1..3 : Component(calc, r) = ValuesOfRule(r, all)
      /\ calc = FoldLines(Returned(NewCalculator), StrippedLines(all)).calc
      /\ summary = CalculateAggregations(calc)

C15_Witness ==
  /\ mpc = "done"
  /\ Len(log_files) = 2
  /\ log_files[1] # log_files[2]
  /\ calc.latency_max_values = <<Frac(2, 1), Frac(1, 1), Frac(1, 1)>>
  /\ calc.op_rate_sum = Frac(12, 1)
  /\ summary.latency_max_stddev = Frac(1, 3)

\* The lists that hold the entries of list in another order.
Reorderings(list) ==
  {[k \in 1..Len(list) |-> list[p[k]]] :
     p \in {q \in [1..Len(list) -> 1..Len(list)] :
              \A a, b \in 1..Len(list) : q[a] = q[b] => a = b}}

RECURSIVE StrippedLinesOf(_)
StrippedLinesOf(list) ==
  IF list = <<>> THEN <<>>
  ELSE GetValues(fs[Head(list)]) \o StrippedLinesOf(Tail(list))

\* What aggregate returns for a list of artifacts that are all there.
SummaryOf(list) ==
  CalculateAggregations(FoldLines(Returned(NewCalculator), StrippedLinesOf(list)).calc)

\* C16: every reordering of the artifact list gives the summary the list
\* gave: the same op rate sum, mean and p99 averages and max-latency
\* stddev.
C16_OrderInsensitive ==
  mpc = "done" => \A list \in Reorderings(log_files) : SummaryOf(list) = summary

\* C17: complete traversals of get_values that began after the worker of
\* the artifact had finished yield the same finite sequence, the trimmed
\* lines of the artifact, and leave the artifact as it was.
C17_Restartable ==
  \A a, b \in 1..Len(rd_done) :
    (rd_done[a].quiet /\ rd_done[b].quiet) =>
      /\ rd_done[a].lines = rd_done[b].lines
      /\ rd_done[a].lines = StrippedLines(rd_done[a].before)
      /\ fs[ReadPath] = rd_done[a].before

C17_Witness ==
  /\ Len(rd_done) = 2
  /\ rd_done[1].quiet
  /\ rd_done[2].quiet
  /\ Len(rd_done[1].lines) = 3
  /\ rd_done[1].lines # rd_done[1].before
  /\ rd_pc = "idle"

BlockedOnEachOther(i) ==
  /\ tpc[i] = "loop"
  /\ pipe[i] = <<>>
  /\ proc[i] = "running"
  /\ Len(emitted[i]) = MaxOut
  /\ errleft[i] > 0
  /\ errq[i] = PipeLines

\* C18: no worker and its process block each other: never is the process
\* blocked writing to a full standard-error pipe that nothing drains while
\* the worker waits for more of its standard output.
C18_NoMutualBlocking == \A i \in Workers : ~BlockedOnEachOther(i)

\* The entries of the log tagged with the name of test t, in log order.
EntriesTagged(t) == SelectSeq(call_log, LAMBDA e : e[2] = t)

\* The entry the k-th call of test t is to leave.
EntryOfCall(t, k) ==
  LET call == TaskCalls(t)[k] IN
    <<"Test: ", t, ", Func: ", call.func, "(">>
      \o Join(<<ReprHelpers(t)>> \o call.args) \o <<")">>

\* C20: under any interleaving of a_test and b_test the entries tagged
\* with a test's name are exactly the calls that test has made so far, one
\* entry per call, in program order, the call whose helper body is running
\* included; the log holds nothing else.
C20_CallLogPerTaskOrder ==
  /\ \A t \in Tasks :
       /\ Len(EntriesTagged(t)) = tk_k[t]
       /\ \A k \in 1..tk_k[t] : EntriesTagged(t)[k] = EntryOfCall(t, k)
       /\ tk_pc[t] = "sleeping" => tk_k[t] >= 1
       /\ tk_pc[t] = "done" => tk_k[t] = Len(TaskCalls(t))
  /\ Len(call_log) = tk_k["a_test"] + tk_k["b_test"]

C20_Witness ==
  /\ tk_pc["a_test"] = "done"
  /\ tk_pc["b_test"] = "done"
  /\ Len(call_log) = 10
  /\ call_log[1][2] = "b_test"
  /\ call_log[2][2] = "a_test"
  /\ call_log[3][2] = "a_test"
  /\ call_log[10][2] = "b_test"

====
